---- MODULE Spec2Model ----
(***************************************************************************)
(* Model of the write path of file.go: File.AddSheet, File.MarshallParts   *)
(* and File.Write.                                                         *)
(*                                                                         *)
(* A File is built with AddSheet; columns and drawings are attached to its *)
(* sheets by code outside file.go (AddCol, AddDrawing).  MarshallParts is  *)
(* modelled in three steps: the prologue, one step per iteration of the    *)
(* loop over f.Sheets, and the epilogue.  Write runs MarshallParts and     *)
(* then one step per archive member.                                       *)
(*                                                                         *)
(* float64 values are modelled exactly: a finite value as a scaled         *)
(* integer, +Inf and NaN as explicit cases (rounding is not modelled).     *)
(***************************************************************************)
EXTENDS Integers, Sequences, FiniteSets, TLC

\* ------------------------------------------------------------------ bounds
MaxCols == 1
MaxDrawings == 1

\* ------------------------------------------------------------------ inputs
\* Sheet names offered to AddSheet; a File has at most one sheet per name.
Names == {"a", "b"}
SheetPositions == 1..Cardinality(Names)
ColWidthInputs == {0, 3}
ColSpanInputs == {1}
SpanInputs == {0, 1}
PixelInputs == {0, 1}
ImageTypeInputs == {"png"}

\* Unit constants used by the anchor arithmetic.
PixelPerUnitHeight == 1
UnitHeightPerCell == 2
PixelPerUnitWidth == 1
NumberPerUnitWidth == 2
NumberPerUnitHeight == 2

IMAGE_TYPE_JPG == "jpg"
IMAGE_TYPE_GIF == "gif"
IMAGE_TYPE_PNG == "png"

\* int(NaN) is implementation-specific in Go: 0 on some targets, the
\* smallest int on others (represented here by -(2^30)).
NaNAsInt == {0, -(2^30)}

DrawingInputs ==
    { [ImageType |-> t, ImageData |-> "bytes",
       TopLeftCell |-> [ColNum |-> 0, RowNum |-> 0],
       ColCount |-> cc, RowCount |-> rc, Width |-> w, Height |-> h] :
      t \in ImageTypeInputs, cc \in SpanInputs, rc \in SpanInputs,
      w \in PixelInputs, h \in PixelInputs }

\* ------------------------------------------------------------------- state
VARIABLES
    Sheets,        \* f.Sheets: sequence of sheets
    Sheet,         \* f.Sheet: map from name to (the position of) its sheet
    styles,        \* f.styles: "nil" or "reset"
    pc,            \* position of the running call
    caller,        \* the entry point that started the running call
    err,           \* the error returned by the last call
    sheetPos,      \* position of the range loop over f.Sheets
    sheetIndex,    \* MarshallParts: sheetIndex
    drawingCount,  \* MarshallParts: drawingCount
    parts,         \* MarshallParts: parts
    workbookRels,  \* MarshallParts: workbookRels
    types,         \* MarshallParts: overrides appended to types.Overrides
    workbook,      \* MarshallParts: workbook.Sheets.Sheet
    xDrawingRels,  \* per processed sheet: its xDrawingRel
    xDrawings,     \* per processed sheet: its xDrawing (anchors)
    xSheetRels,    \* per processed sheet: its xSheetRelationships
    fault,         \* where the call panicked or stopped making progress
    zipWriter,     \* Write: "none", "open" or "closed"
    order,         \* Write: the order in which range visits parts
    archive,       \* Write: members written to the archive so far
    archives       \* archives completed since the File last changed

docVars == <<Sheets, Sheet, styles>>
passVars == <<sheetPos, sheetIndex, drawingCount, parts, workbookRels, types,
              workbook, xDrawingRels, xDrawings, xSheetRels, fault>>
writeVars == <<zipWriter, order, archive>>
vars == <<Sheets, Sheet, styles, pc, caller, err, sheetPos, sheetIndex,
          drawingCount, parts, workbookRels, types, workbook, xDrawingRels,
          xDrawings, xSheetRels, fault, zipWriter, order, archive, archives>>

\* ----------------------------------------------------------------- helpers
EmptyMap == [k \in {} |-> ""]

Put(m, k, v) == [x \in DOMAIN m \cup {k} |-> IF x = k THEN v ELSE m[x]]

RECURSIVE SumLen(_)
SumLen(s) == IF s = <<>> THEN 0 ELSE Len(Head(s)) + SumLen(Tail(s))

TotalCols == SumLen([i \in 1..Len(Sheets) |-> Sheets[i].Cols])
TotalDrawings == SumLen([i \in 1..Len(Sheets) |-> Sheets[i].Drawings])

NoFault == [site |-> "none", sheet |-> 0, drawing |-> 0]

\* ------------------------------------------------------------ construction
Init ==
    /\ Sheets = <<>>
    /\ Sheet = EmptyMap
    /\ styles = "nil"
    /\ pc = "idle"
    /\ caller = "none"
    /\ err = "nil"
    /\ sheetPos = 1
    /\ sheetIndex = 1
    /\ drawingCount = 0
    /\ parts = EmptyMap
    /\ workbookRels = EmptyMap
    /\ types = <<>>
    /\ workbook = <<>>
    /\ xDrawingRels = <<>>
    /\ xDrawings = <<>>
    /\ xSheetRels = <<>>
    /\ fault = NoFault
    /\ zipWriter = "none"
    /\ order = <<>>
    /\ archive = <<>>
    /\ archives = <<>>

\* ---------------------------------------------------------------- AddSheet
\* Variant: every new sheet is created selected.
SelectedOnAddAlways(sheets) == TRUE

SelectedOnAdd(sheets) == Len(sheets) = 0

NewSheet(sheetName, sheets) ==
    [Name |-> sheetName, Selected |-> SelectedOnAdd(sheets),
     MaxCol |-> 0, Cols |-> <<>>, Drawings |-> <<>>]

\* Variant: the lookup in f.Sheet never finds the name.
SheetExistsNever(sheetName) == FALSE

SheetExists(sheetName) == sheetName \in DOMAIN Sheet

AddSheet(sheetName) ==
    /\ pc = "idle"
    /\ IF SheetExists(sheetName)
       THEN /\ err' = "duplicate sheet name"
            /\ UNCHANGED <<Sheets, Sheet, archives>>
       ELSE /\ Sheet' = Put(Sheet, sheetName, Len(Sheets) + 1)
            /\ Sheets' = Append(Sheets, NewSheet(sheetName, Sheets))
            /\ err' = "nil"
            /\ archives' = <<>>
    /\ UNCHANGED <<styles, pc, caller>>
    /\ UNCHANGED passVars
    /\ UNCHANGED writeVars

\* ------------------------------------------- sheet set-up outside file.go
\* A column entry covering the next span columns of sheet i.
AddCol(i, span, width) ==
    /\ pc = "idle"
    /\ i \in 1..Len(Sheets)
    /\ TotalCols < MaxCols
    /\ Sheets' = [Sheets EXCEPT
                    ![i].Cols = Append(@, [Min |-> Sheets[i].MaxCol + 1,
                                           Max |-> Sheets[i].MaxCol + span,
                                           Width |-> width]),
                    ![i].MaxCol = @ + span]
    /\ archives' = <<>>
    /\ err' = "nil"
    /\ UNCHANGED <<Sheet, styles, pc, caller>>
    /\ UNCHANGED passVars
    /\ UNCHANGED writeVars

\* A drawing anchored at a cell of one of the sheet's columns.
AddDrawing(i, drawing) ==
    /\ pc = "idle"
    /\ i \in 1..Len(Sheets)
    /\ drawing.TopLeftCell.ColNum < Sheets[i].MaxCol
    /\ TotalDrawings < MaxDrawings
    /\ Sheets' = [Sheets EXCEPT ![i].Drawings = Append(@, drawing)]
    /\ archives' = <<>>
    /\ err' = "nil"
    /\ UNCHANGED <<Sheet, styles, pc, caller>>
    /\ UNCHANGED passVars
    /\ UNCHANGED writeVars

\* ------------------------------------------------------- names and paths
RId(index) == "rId" \o ToString(index)
SheetId(index) == ToString(index)
SheetPath(index) == "worksheets/sheet" \o ToString(index) \o ".xml"
SheetPartName(sheetPath) == "xl/" \o sheetPath
OverridePartName(partName) == "/" \o partName
DrawingXML(index) == "drawing" \o ToString(index) \o ".xml"
\* Variant: the drawing part is stored under another directory.
DrawingPartNameOtherDir(drawingXML) == "xl/drawing/" \o drawingXML

DrawingPartName(drawingXML) == "xl/drawings/" \o drawingXML
DrawingRelsPartName(drawingXML) == "xl/drawings/_rels/" \o drawingXML \o ".rels"
SheetRelsPartName(index) ==
    "xl/worksheets/_rels/sheet" \o ToString(index) \o ".xml.rels"
MediaPartName(imageName) == "xl/media/" \o imageName

ImageExt(imageType) ==
    CASE imageType = IMAGE_TYPE_JPG -> ".jpg"
      [] imageType = IMAGE_TYPE_GIF -> ".gif"
      [] imageType = IMAGE_TYPE_PNG -> ".png"
      [] OTHER -> ""

ImageName(count, imageExt) == "image" \o ToString(count) \o imageExt

\* marshal: the XML header followed by the serialized body, or "" and an
\* error when xml.Marshal fails.
marshal(body, ok) == IF ok THEN "<?xml?>" \o body ELSE ""

ZeroXlsxSheet == [Name |-> "", SheetId |-> "", Id |-> "", State |-> ""]

makeWorkbook == [i \in 1..Len(Sheets) |-> ZeroXlsxSheet]

\* ------------------------------------------------------ column width array
\* colWidths := make([]float64, sheet.MaxCol), then every Col entry writes
\* its Width at the indices Min-1 .. Max-1.
FillInRange(sheet) ==
    \A k \in 1..Len(sheet.Cols) :
        \A i \in (sheet.Cols[k].Min - 1)..(sheet.Cols[k].Max - 1) :
            i \in 0..(sheet.MaxCol - 1)

Highest(S) == CHOOSE x \in S : \A y \in S : y <= x

FillColWidths(sheet) ==
    [i \in 0..(sheet.MaxCol - 1) |->
        LET covering == {k \in 1..Len(sheet.Cols) :
                            sheet.Cols[k].Min - 1 <= i /\ i < sheet.Cols[k].Max}
        IN  IF covering = {} THEN 0 ELSE sheet.Cols[Highest(covering)].Width]

\* ------------------------------------------------------- anchor arithmetic
\* The kind of the float64 quotient num/den of two non-negative ints.
QuotientKind(num, den) ==
    IF den # 0 THEN "fin" ELSE IF num = 0 THEN "nan" ELSE "inf"

AnchorOk(toCol, toColOff, toRow, toRowOff) ==
    [status |-> "ok", site |-> "none", toCol |-> toCol, toColOff |-> toColOff,
     toRow |-> toRow, toRowOff |-> toRowOff]

AnchorStop(status, site) ==
    [status |-> status, site |-> site, toCol |-> 0, toColOff |-> 0,
     toRow |-> 0, toRowOff |-> 0]

\* for targeWidth >= colWidths[colIndex]*NumberPerUnitWidth { ...; colIndex++ }
\* rem and unit are targeWidth and NumberPerUnitWidth scaled by
\* Height*PixelPerUnitWidth.  ok is FALSE when the index leaves the array.
WalkAdvance(colIndex) == colIndex + 1

RECURSIVE WalkCols(_, _, _, _)
WalkCols(colWidths, colIndex, rem, unit) ==
    IF colIndex \notin DOMAIN colWidths
    THEN [ok |-> FALSE, colIndex |-> colIndex, rem |-> rem]
    ELSE IF rem >= colWidths[colIndex] * unit
         THEN WalkCols(colWidths, WalkAdvance(colIndex),
                       rem - colWidths[colIndex] * unit, unit)
         ELSE [ok |-> TRUE, colIndex |-> colIndex, rem |-> rem]

RECURSIVE SumWidths(_, _, _)
SumWidths(colWidths, from, to) ==
    IF from >= to THEN 0
    ELSE colWidths[from] * PixelPerUnitWidth + SumWidths(colWidths, from + 1, to)

CaseA(drawing) == drawing.RowCount > 0 /\ drawing.ColCount > 0
CaseB(drawing) == ~CaseA(drawing) /\ drawing.RowCount > 0
CaseC(drawing) == ~CaseA(drawing) /\ ~CaseB(drawing)

AnchorA(drawing) ==
    AnchorOk(drawing.TopLeftCell.ColNum + drawing.ColCount, 0,
             drawing.TopLeftCell.RowNum + drawing.RowCount, 0)

AnchorB(drawing, colWidths, nanInt) ==
    LET c0 == drawing.TopLeftCell.ColNum
        toRow == drawing.TopLeftCell.RowNum + drawing.RowCount
        kind == QuotientKind(drawing.Width, drawing.Height)
        scale == drawing.Height * PixelPerUnitWidth
        rem0 == drawing.Width * PixelPerUnitHeight * UnitHeightPerCell
                    * drawing.RowCount * NumberPerUnitWidth
        walk == WalkCols(colWidths, c0, rem0, NumberPerUnitWidth * scale)
    IN  CASE kind = "fin" ->
                IF walk.ok
                THEN AnchorOk(walk.colIndex, walk.rem \div scale, toRow, 0)
                ELSE AnchorStop("panic", "walkB")
          [] kind = "inf" -> AnchorStop("panic", "walkB")
          [] kind = "nan" ->
                IF c0 \in DOMAIN colWidths
                THEN AnchorOk(c0, nanInt, toRow, 0)
                ELSE AnchorStop("panic", "walkB")

AnchorC(drawing, colWidths, nanInt) ==
    LET c0 == drawing.TopLeftCell.ColNum
        r0 == drawing.TopLeftCell.RowNum
        toCol == c0 + drawing.ColCount
        inRange == \A colIndex \in c0..(toCol - 1) : colIndex \in DOMAIN colWidths
        sum == SumWidths(colWidths, c0, toCol)
        ratio == QuotientKind(drawing.Height, drawing.Width)
        kind == CASE ratio = "fin" -> "fin"
                  [] ratio = "nan" -> "nan"
                  [] ratio = "inf" -> IF sum = 0 THEN "nan" ELSE "inf"
        scale == drawing.Width * PixelPerUnitHeight
        th == drawing.Height * sum * NumberPerUnitHeight
        cost == UnitHeightPerCell * NumberPerUnitHeight * scale
    IN  IF ~inRange THEN AnchorStop("panic", "sumC")
        ELSE CASE kind = "fin" ->
                    AnchorOk(toCol, 0, r0 + (th \div cost), (th % cost) \div scale)
               [] kind = "inf" -> AnchorStop("hang", "rowWalk")
               [] kind = "nan" -> AnchorOk(toCol, 0, r0, nanInt)

Anchor(drawing, colWidths, nanInt) ==
    IF CaseA(drawing) THEN AnchorA(drawing)
    ELSE IF CaseB(drawing) THEN AnchorB(drawing, colWidths, nanInt)
    ELSE AnchorC(drawing, colWidths, nanInt)

\* xDrawingRel.AddDrawingRelationship(imageName): appends the relationship
\* and returns its id.
AddDrawingRelationship(rels, imageName) ==
    Append(rels, [Id |-> RId(Len(rels) + 1), Target |-> imageName])

AddDrawingTwoCellAnchor(anchors, drawing, a, embedId) ==
    Append(anchors, [fromCol |-> drawing.TopLeftCell.ColNum,
                     fromRow |-> drawing.TopLeftCell.RowNum,
                     toCol |-> a.toCol, toColOff |-> a.toColOff,
                     toRow |-> a.toRow, toRowOff |-> a.toRowOff,
                     embedId |-> embedId])

\* The loop over sheet.Drawings, from drawing k on.
RECURSIVE DoDrawings(_, _, _, _, _)
DoDrawings(drawings, k, colWidths, nanInt, acc) ==
    IF k > Len(drawings) THEN acc
    ELSE LET drawing == drawings[k]
             count == acc.count + 1
             imageName == ImageName(count, ImageExt(drawing.ImageType))
             parts1 == Put(acc.parts, MediaPartName(imageName), drawing.ImageData)
             a == Anchor(drawing, colWidths, nanInt)
             rels1 == AddDrawingRelationship(acc.rels, imageName)
         IN  IF a.status # "ok"
             THEN [acc EXCEPT !.status = a.status, !.site = a.site,
                              !.drawing = k, !.count = count, !.parts = parts1]
             ELSE DoDrawings(drawings, k + 1, colWidths, nanInt,
                     [acc EXCEPT !.count = count, !.parts = parts1,
                                 !.rels = rels1,
                                 !.anchors = AddDrawingTwoCellAnchor(
                                     acc.anchors, drawing, a, rels1[Len(rels1)].Id)])

\* ----------------------------------------------------------- MarshallParts
\* Where the call goes when MarshallParts returns.
AfterMarshall == IF caller = "Write" THEN "marshalled" ELSE "returned"

SheetMarshalPoints == {"none", "sheet", "drawingRel", "drawing", "sheetRel"}
FinalMarshalPoints == {"none", "workbook", "sst", "wrel", "types", "styles"}

\* Prologue of MarshallParts (entered directly or from Write).
MarshallBegin(entry) ==
    /\ pc = "idle"
    /\ pc' = "sheets"
    /\ caller' = entry
    /\ err' = "nil"
    /\ styles' = "reset"
    /\ parts' = EmptyMap
    /\ workbookRels' = EmptyMap
    /\ types' = <<>>
    /\ workbook' = makeWorkbook
    /\ sheetIndex' = 1
    /\ drawingCount' = 0
    /\ sheetPos' = 1
    /\ UNCHANGED <<Sheets, Sheet, xDrawingRels, xDrawings, xSheetRels, fault,
                   archives>>
    /\ UNCHANGED writeVars

\* Variant: sheetIndex is not incremented.
NextSheetIndexStuck(index) == index

NextSheetIndex(index) == index + 1

\* One iteration of the loop over f.Sheets.  failAt names the marshal call
\* of this iteration that fails, if any.
SheetStep(failAt, nanInt) ==
    LET sheet == Sheets[sheetPos]
        rId == RId(sheetIndex)
        sheetPath == SheetPath(sheetIndex)
        partName == SheetPartName(sheetPath)
        types1 == Append(types, [PartName |-> OverridePartName(partName),
                                 ContentType |-> "worksheet+xml"])
        rels1 == Put(workbookRels, rId, sheetPath)
        wb1 == [workbook EXCEPT ![sheetIndex] =
                    [Name |-> sheet.Name, SheetId |-> SheetId(sheetIndex),
                     Id |-> rId, State |-> "visible"]]
        parts1 == Put(parts, partName,
                      marshal(ToString(<<"worksheet", sheet.Name>>), failAt # "sheet"))
        base == [pc |-> AfterMarshall, err |-> "marshal", fault |-> NoFault,
                 parts |-> parts1, types |-> types1, workbookRels |-> rels1,
                 workbook |-> wb1, drawingCount |-> drawingCount,
                 xDrawingRels |-> xDrawingRels, xDrawings |-> xDrawings,
                 xSheetRels |-> xSheetRels, sheetIndex |-> sheetIndex,
                 sheetPos |-> sheetPos]
        colWidths == FillColWidths(sheet)
        dr == DoDrawings(sheet.Drawings, 1, colWidths, nanInt,
                  [status |-> "ok", site |-> "none", drawing |-> 0,
                   count |-> drawingCount, parts |-> parts1,
                   rels |-> <<>>, anchors |-> <<>>])
        drawingXML == DrawingXML(sheetIndex)
        drawingPartName == DrawingPartName(drawingXML)
        types2 == Append(types1, [PartName |-> OverridePartName(drawingPartName),
                                  ContentType |-> "drawing+xml"])
        parts2 == Put(dr.parts, DrawingRelsPartName(drawingXML),
                      marshal(ToString(dr.rels), failAt # "drawingRel"))
        parts3 == Put(parts2, drawingPartName,
                      marshal(ToString(dr.anchors), failAt # "drawing"))
        sheetRels == <<[Id |-> "rId1", Target |-> drawingXML]>>
        parts4 == Put(parts3, SheetRelsPartName(sheetIndex),
                      marshal(ToString(sheetRels), failAt # "sheetRel"))
        drawn == [base EXCEPT !.parts = parts2, !.types = types2,
                              !.drawingCount = dr.count,
                              !.xDrawingRels = Append(xDrawingRels, dr.rels),
                              !.xDrawings = Append(xDrawings, dr.anchors)]
    IN  IF sheetIndex \notin DOMAIN workbook
        THEN [base EXCEPT !.pc = "panic", !.err = "nil", !.parts = parts,
                          !.workbook = workbook,
                          !.fault = [site |-> "workbook", sheet |-> sheetPos,
                                     drawing |-> 0]]
        ELSE IF failAt = "sheet" THEN base
        ELSE IF ~FillInRange(sheet)
        THEN [base EXCEPT !.pc = "panic", !.err = "nil",
                          !.fault = [site |-> "fill", sheet |-> sheetPos,
                                     drawing |-> 0]]
        ELSE IF dr.status # "ok"
        THEN [base EXCEPT !.pc = dr.status, !.err = "nil", !.parts = dr.parts,
                          !.drawingCount = dr.count,
                          !.fault = [site |-> dr.site, sheet |-> sheetPos,
                                     drawing |-> dr.drawing]]
        ELSE IF failAt = "drawingRel" THEN drawn
        ELSE IF failAt = "drawing" THEN [drawn EXCEPT !.parts = parts3]
        ELSE IF failAt = "sheetRel"
        THEN [drawn EXCEPT !.parts = parts4,
                           !.xSheetRels = Append(xSheetRels, sheetRels)]
        ELSE [drawn EXCEPT !.pc = "sheets", !.err = "nil", !.parts = parts4,
                           !.xSheetRels = Append(xSheetRels, sheetRels),
                           !.sheetIndex = NextSheetIndex(sheetIndex),
                           !.sheetPos = sheetPos + 1]

MarshallSheet ==
    /\ pc = "sheets"
    /\ sheetPos <= Len(Sheets)
    /\ \E failAt \in SheetMarshalPoints, nanInt \in NaNAsInt :
        LET out == SheetStep(failAt, nanInt)
        IN  /\ pc' = out.pc
            /\ err' = out.err
            /\ fault' = out.fault
            /\ parts' = out.parts
            /\ types' = out.types
            /\ workbookRels' = out.workbookRels
            /\ workbook' = out.workbook
            /\ drawingCount' = out.drawingCount
            /\ xDrawingRels' = out.xDrawingRels
            /\ xDrawings' = out.xDrawings
            /\ xSheetRels' = out.xSheetRels
            /\ sheetIndex' = out.sheetIndex
            /\ sheetPos' = out.sheetPos
    /\ UNCHANGED <<Sheets, Sheet, styles, caller, archives>>
    /\ UNCHANGED writeVars

\* The parts written after the loop, up to the marshal call that fails.
FinalParts(failAt) ==
    LET p1 == Put(parts, "xl/workbook.xml", marshal(ToString(workbook), TRUE))
        p2 == Put(p1, "_rels/.rels", "TEMPLATE__RELS_DOT_RELS")
        p3 == Put(p2, "docProps/app.xml", "TEMPLATE_DOCPROPS_APP")
        p4 == Put(p3, "docProps/core.xml", "TEMPLATE_DOCPROPS_CORE")
        p5 == Put(p4, "xl/theme/theme1.xml", "TEMPLATE_XL_THEME_THEME")
        p6 == Put(p5, "xl/sharedStrings.xml",
                  marshal("sst", failAt # "sst"))
        p7 == Put(p6, "xl/_rels/workbook.xml.rels",
                  marshal(ToString(workbookRels), failAt # "wrel"))
        p8 == Put(p7, "[Content_Types].xml",
                  marshal(ToString(types), failAt # "types"))
        p9 == Put(p8, "xl/styles.xml", marshal("styles", failAt # "styles"))
    IN  CASE failAt = "workbook" -> parts
          [] failAt = "sst" -> p6
          [] failAt = "wrel" -> p7
          [] failAt = "types" -> p8
          [] OTHER -> p9

\* Epilogue of MarshallParts, after the last sheet.
MarshallFinish ==
    /\ pc = "sheets"
    /\ sheetPos > Len(Sheets)
    /\ \E failAt \in FinalMarshalPoints :
        /\ parts' = FinalParts(failAt)
        /\ err' = IF failAt = "none" THEN "nil" ELSE "marshal"
    /\ pc' = AfterMarshall
    /\ UNCHANGED <<Sheets, Sheet, styles, caller, sheetPos, sheetIndex,
                   drawingCount, workbookRels, types, workbook, xDrawingRels,
                   xDrawings, xSheetRels, fault, archives>>
    /\ UNCHANGED writeVars

MarshallPartsCall == MarshallBegin("MarshallParts")

\* ------------------------------------------------------------------- Write
WriteCall == MarshallBegin("Write")

\* Every key MarshallParts can put into parts, in a fixed order.
SheetKeys(index) ==
    <<SheetPartName(SheetPath(index)), DrawingRelsPartName(DrawingXML(index)),
      DrawingPartName(DrawingXML(index)), SheetRelsPartName(index)>>

RECURSIVE KeysUpTo(_)
KeysUpTo(index) ==
    IF index = 0 THEN <<>> ELSE KeysUpTo(index - 1) \o SheetKeys(index)

RECURSIVE MediaKeysUpTo(_)
MediaKeysUpTo(count) ==
    IF count = 0 THEN <<>>
    ELSE MediaKeysUpTo(count - 1)
         \o <<MediaPartName(ImageName(count, "")),
              MediaPartName(ImageName(count, ".jpg")),
              MediaPartName(ImageName(count, ".gif")),
              MediaPartName(ImageName(count, ".png"))>>

KeyCatalogue ==
    KeysUpTo(Len(Sheets)) \o MediaKeysUpTo(TotalDrawings)
    \o <<"xl/workbook.xml", "_rels/.rels", "docProps/app.xml",
         "docProps/core.xml", "xl/theme/theme1.xml", "xl/sharedStrings.xml",
         "xl/_rels/workbook.xml.rels", "[Content_Types].xml", "xl/styles.xml">>

InParts(k) == k \in DOMAIN parts

Rotate(seq, r) ==
    [i \in 1..Len(seq) |-> seq[((i - 1 + r) % Len(seq)) + 1]]

\* The orders in which "for partName, part := range parts" may visit the
\* map: iteration starts at a position chosen at random.
RangeOrders(keys) ==
    IF keys = <<>> THEN {<<>>} ELSE {Rotate(keys, r) : r \in 0..(Len(keys) - 1)}

\* Lines 105-108: return the error of MarshallParts, or create the writer.
WriteOpen ==
    /\ pc = "marshalled"
    /\ IF err # "nil"
       THEN /\ pc' = "returned"
            /\ UNCHANGED <<zipWriter, order, archive>>
       ELSE /\ pc' = "writing"
            /\ zipWriter' = "open"
            /\ order' \in RangeOrders(SelectSeq(KeyCatalogue, InParts))
            /\ archive' = <<>>
    /\ UNCHANGED <<Sheets, Sheet, styles, caller, err, archives>>
    /\ UNCHANGED passVars

IOOutcomes == {"ok", "create", "write"}

\* Whether Write closes the archive writer before returning an error.
CloseOnError == "open"

\* One iteration of the loop over parts.
WriteMember ==
    /\ pc = "writing"
    /\ Len(archive) < Len(order)
    /\ LET partName == order[Len(archive) + 1]
       IN  \E outcome \in IOOutcomes :
             CASE outcome = "ok" ->
                    /\ archive' = Append(archive, [name |-> partName,
                                                   body |-> parts[partName]])
                    /\ UNCHANGED <<pc, err, zipWriter>>
               [] outcome = "create" ->
                    /\ err' = "create"
                    /\ pc' = "returned"
                    /\ zipWriter' = CloseOnError
                    /\ UNCHANGED archive
               [] outcome = "write" ->
                    /\ archive' = Append(archive, [name |-> partName,
                                                   body |-> ""])
                    /\ err' = "write"
                    /\ pc' = "returned"
                    /\ zipWriter' = CloseOnError
    /\ UNCHANGED <<Sheets, Sheet, styles, caller, order, archives>>
    /\ UNCHANGED passVars

\* The archive of the previous successful run, followed by this one.
Remember(history, a) ==
    IF history = <<>> THEN <<a>> ELSE <<history[Len(history)], a>>

\* return zipWriter.Close()
WriteClose ==
    /\ pc = "writing"
    /\ Len(archive) = Len(order)
    /\ zipWriter' = "closed"
    /\ \E closeErr \in {"nil", "close"} :
        /\ err' = closeErr
        /\ archives' = IF closeErr = "nil" THEN Remember(archives, archive)
                       ELSE archives
    /\ pc' = "returned"
    /\ UNCHANGED <<Sheets, Sheet, styles, caller, order, archive>>
    /\ UNCHANGED passVars

\* The caller drops the result of Write.
WriteReturn ==
    /\ pc = "returned"
    /\ pc' = "idle"
    /\ caller' = "none"
    /\ err' = "nil"
    /\ sheetPos' = 1
    /\ sheetIndex' = 1
    /\ drawingCount' = 0
    /\ parts' = EmptyMap
    /\ workbookRels' = EmptyMap
    /\ types' = <<>>
    /\ workbook' = <<>>
    /\ xDrawingRels' = <<>>
    /\ xDrawings' = <<>>
    /\ xSheetRels' = <<>>
    /\ zipWriter' = "none"
    /\ order' = <<>>
    /\ archive' = <<>>
    /\ archives' = IF archives = <<>> THEN <<>> ELSE <<archives[Len(archives)]>>
    /\ UNCHANGED <<Sheets, Sheet, styles, fault>>

Next ==
    \/ \E sheetName \in Names : AddSheet(sheetName)
    \/ \E i \in SheetPositions, span \in ColSpanInputs, width \in ColWidthInputs :
          AddCol(i, span, width)
    \/ \E i \in SheetPositions, drawing \in DrawingInputs : AddDrawing(i, drawing)
    \/ MarshallPartsCall
    \/ MarshallSheet
    \/ MarshallFinish

Spec == Init /\ [][Next]_vars

NextWrite ==
    \/ \E sheetName \in Names : AddSheet(sheetName)
    \/ WriteCall
    \/ MarshallSheet
    \/ MarshallFinish
    \/ WriteOpen
    \/ WriteMember
    \/ WriteClose
    \/ WriteReturn

SpecWrite == Init /\ [][NextWrite]_vars

\* ================================================================== claims
MarshallSucceeded ==
    pc = "returned" /\ caller = "MarshallParts" /\ err = "nil"

PassEnded ==
    \/ pc = "returned" /\ caller = "MarshallParts" /\ err # "marshal"
    \/ pc \in {"panic", "hang"}

\* C1: after a successful MarshallParts pass every path named by
\* workbookRels, by an override added during the pass, by a worksheet's
\* drawing relationship or by a drawing relationship is a key of parts, and
\* every rId of a workbook sheet entry is a key of workbookRels.
PathsResolve ==
    MarshallSucceeded =>
        /\ \A rId \in DOMAIN workbookRels :
              ("xl/" \o workbookRels[rId]) \in DOMAIN parts
        /\ \A i \in 1..Len(types) :
              \E k \in DOMAIN parts : types[i].PartName = "/" \o k
        /\ \A s \in 1..Len(xSheetRels) : \A j \in 1..Len(xSheetRels[s]) :
              ("xl/drawings/" \o xSheetRels[s][j].Target) \in DOMAIN parts
        /\ \A s \in 1..Len(xDrawingRels) : \A j \in 1..Len(xDrawingRels[s]) :
              ("xl/media/" \o xDrawingRels[s][j].Target) \in DOMAIN parts
        /\ \A i \in 1..Len(workbook) : workbook[i].Id \in DOMAIN workbookRels

PathsResolveWitness ==
    /\ MarshallSucceeded
    /\ Len(Sheets) = 2
    /\ Len(xSheetRels) = 2
    /\ \E s \in 1..Len(xDrawingRels) : Len(xDrawingRels[s]) > 0

\* C2: in one pass the sheet at position i receives SheetId i, rId<i>,
\* worksheet part sheet<i>.xml and drawing part drawing<i>.xml; the
\* identifiers used are exactly 1..n and there is exactly one worksheet
\* part per sheet.
WorksheetPartNames(n) ==
    {"xl/worksheets/sheet" \o ToString(j) \o ".xml" : j \in 1..n}

DenseSheetIds ==
    MarshallSucceeded =>
        /\ Len(workbook) = Len(Sheets)
        /\ \A i \in 1..Len(Sheets) :
              /\ workbook[i].Name = Sheets[i].Name
              /\ workbook[i].SheetId = ToString(i)
              /\ workbook[i].Id = "rId" \o ToString(i)
              /\ ("rId" \o ToString(i)) \in DOMAIN workbookRels
              /\ workbookRels["rId" \o ToString(i)]
                    = "worksheets/sheet" \o ToString(i) \o ".xml"
              /\ ("xl/worksheets/sheet" \o ToString(i) \o ".xml") \in DOMAIN parts
              /\ parts["xl/worksheets/sheet" \o ToString(i) \o ".xml"]
                    = "<?xml?>" \o ToString(<<"worksheet", Sheets[i].Name>>)
              /\ ("xl/drawings/drawing" \o ToString(i) \o ".xml") \in DOMAIN parts
        /\ DOMAIN workbookRels = {"rId" \o ToString(i) : i \in 1..Len(Sheets)}
        /\ DOMAIN parts \cap WorksheetPartNames(Len(Sheets) + 2)
              = WorksheetPartNames(Len(Sheets))
        /\ sheetIndex = Len(Sheets) + 1

DenseSheetIdsWitness == MarshallSucceeded /\ Len(Sheets) = 2

\* C3: AddSheet with a name that already belongs to a sheet returns an error
\* and leaves f.Sheets and f.Sheet unchanged; the names in f.Sheets are
\* pairwise distinct and f.Sheet has exactly one entry per sheet.
SheetNamesUnique ==
    \A i, j \in 1..Len(Sheets) : i # j => Sheets[i].Name # Sheets[j].Name

SheetMapMatches ==
    /\ DOMAIN Sheet = {Sheets[i].Name : i \in 1..Len(Sheets)}
    /\ Cardinality(DOMAIN Sheet) = Len(Sheets)
    /\ \A i \in 1..Len(Sheets) : Sheet[Sheets[i].Name] = i

NameInUse(sheetName) == \E i \in 1..Len(Sheets) : Sheets[i].Name = sheetName

DuplicateAddSheetRejected ==
    /\ [](SheetNamesUnique /\ SheetMapMatches)
    /\ [][\A sheetName \in Names :
            (NameInUse(sheetName) /\ AddSheet(sheetName)) =>
                /\ err' = "duplicate sheet name"
                /\ Sheets' = Sheets
                /\ Sheet' = Sheet]_vars

DuplicateAddSheetWitness ==
    /\ pc = "idle"
    /\ err = "duplicate sheet name"
    /\ Len(Sheets) = 2

\* C8: after any non-empty sequence of AddSheet calls exactly one sheet is
\* selected, the first one created, and a failed AddSheet does not change
\* which sheet is selected.
FirstSheetSelected ==
    /\ [](Len(Sheets) > 0 =>
            /\ Sheets[1].Selected
            /\ Cardinality({i \in 1..Len(Sheets) : Sheets[i].Selected}) = 1)
    /\ [][err' = "duplicate sheet name" =>
            /\ Len(Sheets') = Len(Sheets)
            /\ \A i \in 1..Len(Sheets) :
                  Sheets'[i].Selected = Sheets[i].Selected]_vars

FirstSheetSelectedWitness ==
    /\ Len(Sheets) = 2
    /\ err = "duplicate sheet name"
    /\ Sheets[1].Selected
    /\ ~Sheets[2].Selected

\* ---------------------------------------------------------- drawing claims
RECURSIVE DrawingsBefore(_)
DrawingsBefore(i) ==
    IF i <= 1 THEN 0 ELSE DrawingsBefore(i - 1) + Len(Sheets[i - 1].Drawings)

MediaKeyOf(i, k) ==
    "xl/media/image" \o ToString(DrawingsBefore(i) + k)
        \o ImageExt(Sheets[i].Drawings[k].ImageType)

DrawingPositions ==
    {<<i, k>> \in (1..Len(Sheets)) \X (1..MaxDrawings + 1) :
        k <= Len(Sheets[i].Drawings)}

ZeroSize(drawing) == drawing.Width = 0 \/ drawing.Height = 0
Spanless(drawing) == drawing.ColCount = 0 /\ drawing.RowCount = 0

HasAnchor(i) == i <= Len(xDrawings) /\ Len(xDrawings[i]) > 0

\* C5: for a Drawing whose Width or Height is 0, MarshallParts reports a
\* model error, parts holds no xl/media part for that drawing, and no
\* aspect-ratio division by zero is performed.
ZeroSizeDrawingRejected ==
    \A pos \in DrawingPositions :
        (PassEnded /\ ZeroSize(Sheets[pos[1]].Drawings[pos[2]])) =>
            /\ pc = "returned"
            /\ err # "nil"
            /\ MediaKeyOf(pos[1], pos[2]) \notin DOMAIN parts

\* C6: a Drawing with ColCount = 0 and RowCount = 0 is rejected: an error is
\* returned and no anchor entry or media part is produced for it.
SpanlessDrawingRejected ==
    \A pos \in DrawingPositions :
        (PassEnded /\ Spanless(Sheets[pos[1]].Drawings[pos[2]])) =>
            /\ pc = "returned"
            /\ err # "nil"
            /\ MediaKeyOf(pos[1], pos[2]) \notin DOMAIN parts
            /\ ~HasAnchor(pos[1])

\* C9: in the row-span-only case the column walk ends normally with a
\* bottom-right column and a leftover offset, for every sheet and drawing,
\* also when it meets a column of width 0.
RowSpanWalkTerminates == fault.site # "walkB"

\* C10: every index used to access colWidths lies in 0..sheet.MaxCol-1:
\* when the array is filled, in the Case B walk and in the Case C sum.
ColWidthIndexInRange == fault.site \notin {"fill", "walkB", "sumC"}

\* ------------------------------------------------------------ Write claims
\* C4: two runs of Write on the same unmodified File produce the same
\* archive: the same members with the same contents in the same order.
ArchivesIdentical == Len(archives) = 2 => archives[1] = archives[2]

\* C7: every exit path of Write that has created the archive writer closes
\* it before returning.
WriterClosedOnEveryExit ==
    (pc = "returned" /\ caller = "Write" /\ zipWriter # "none")
        => zipWriter = "closed"
====
